---- MODULE Spec2Model ----
(***************************************************************************)
(* The terminal compositor of ink: the top-level compose (renderer), the   *)
(* recursive node renderer (renderNodeToOutput) and the screen-reader      *)
(* linearizer (linearizeFragments).                                        *)
(*                                                                         *)
(* The repository holds the compose in three variants and the node         *)
(* renderer in two; `variant` selects the pair that is running:            *)
(*   "A"  src/src/renderer.ts   with src/src/render-node-to-output.ts      *)
(*   "B"  src/unnamed/part_000  with src/unnamed/part_002                  *)
(*   "C"  src/unnamed/part_001  with src/src/render-node-to-output.ts for  *)
(*        the visual passes; its screen-reader walker                      *)
(*        (renderNodeToScreenReaderOutput) is not among the sources and is *)
(*        modelled from section 4.5 of the specification.                  *)
(*                                                                         *)
(* Strings are sequences of symbols.  A symbol is a line break, a space, a *)
(* punctuation mark or a whole word; a canvas cell holds one symbol.       *)
(* Transformers are user functions: a transformer is named by the node     *)
(* that carries it and only the list recorded with a write is modelled.    *)
(***************************************************************************)
EXTENDS Integers, Sequences, FiniteSets, TLC

\* ------------------------------------------------------------ bounds
MaxNodes == 3
MaxCoord == 1

\* ----------------------------------------------------------- strings
NL == "\n"
SP == " "

RECURSIVE Concat(_)
Concat(ss) == IF ss = <<>> THEN <<>> ELSE Head(ss) \o Concat(Tail(ss))

RECURSIVE Repeat(_, _)
Repeat(s, n) == IF n <= 0 THEN <<>> ELSE s \o Repeat(s, n - 1)

RECURSIVE Join(_, _)
Join(ss, sep) ==
    IF ss = <<>> THEN <<>>
    ELSE IF Len(ss) = 1 THEN Head(ss)
    ELSE Head(ss) \o sep \o Join(Tail(ss), sep)

FilterBoolean(ss) == SelectSeq(ss, LAMBDA s : s # <<>>)

EndsWith(s, c) == Len(s) > 0 /\ s[Len(s)] = c

CountSym(s, c) == Cardinality({i \in 1..Len(s) : s[i] = c})

\* s.split('\n'): the lines of s, always at least one
RECURSIVE SplitLines(_)
SplitLines(s) ==
    IF \A i \in 1..Len(s) : s[i] # NL THEN <<s>>
    ELSE LET k == CHOOSE i \in 1..Len(s) : s[i] = NL /\ \A j \in 1..(i - 1) : s[j] # NL
         IN <<SubSeq(s, 1, k - 1)>> \o SplitLines(SubSeq(s, k + 1, Len(s)))

Reverse(s) == [i \in 1..Len(s) |-> s[Len(s) + 1 - i]]

\* ------------------------------------------ accessibility descriptor
\* internal_accessibility: {role, state}; role "" stands for no role, and
\* state is the ordered mapping of flag names to booleans (hasState FALSE:
\* no state object at all).
NoAccessibility == [present |-> FALSE, role |-> "", hasState |-> FALSE, state |-> <<>>]

TrueKeys(state) ==
    LET on == SelectSeq(state, LAMBDA e : e.value)
    IN [i \in 1..Len(on) |-> <<on[i].key>>]

\* render-node-to-output.ts: "(k1, k2) " then "role: "
accessibilityTextA(acc) ==
    LET stateDescription == IF acc.hasState THEN Join(TrueKeys(acc.state), <<",", SP>>) ELSE <<>>
        statePart == IF stateDescription # <<>> THEN <<"(">> \o stateDescription \o <<")", SP>> ELSE <<>>
        rolePart == IF acc.role # "" THEN <<acc.role, ":", SP>> ELSE <<>>
    IN statePart \o rolePart

\* part_002: "role: " then "(k1) (k2) "
accessibilityTextB(acc) ==
    LET rolePart == IF acc.role # "" THEN <<acc.role, ":", SP>> ELSE <<>>
        keys == IF acc.hasState THEN TrueKeys(acc.state) ELSE <<>>
        states == [i \in 1..Len(keys) |-> <<"(">> \o keys[i] \o <<")">>]
        statePart == IF Len(states) > 0 THEN Join(states, <<SP>>) \o <<SP>> ELSE <<>>
    IN rolePart \o statePart

\* section 4.5 of the specification: "(stateFlag1, stateFlag2) role: "
accessibilityTextSpec(acc) ==
    LET flags == IF acc.hasState THEN TrueKeys(acc.state) ELSE <<>>
    IN (IF flags # <<>> THEN <<"(">> \o Join(flags, <<",", SP>>) \o <<")", SP>> ELSE <<>>)
       \o (IF acc.role # "" THEN <<acc.role, ":", SP>> ELSE <<>>)

\* ------------------------------------------------------ linearizer
\* the comparator handed to fragments.sort
CompareFragmentsYX(a, b) == IF a.y # b.y THEN a.y - b.y ELSE a.x - b.x

\* a comparator that looks at the column alone
CompareFragmentsXOnly(a, b) == a.x - b.x

CompareFragments(a, b) == CompareFragmentsYX(a, b)

\* Array.prototype.sort is stable: an element goes after every element
\* that does not compare greater than it.
RECURSIVE InsertFragment(_, _)
InsertFragment(sorted, f) ==
    IF sorted = <<>> THEN <<f>>
    ELSE IF CompareFragments(Head(sorted), f) > 0 THEN <<f>> \o sorted
    ELSE <<Head(sorted)>> \o InsertFragment(Tail(sorted), f)

RECURSIVE SortFragments(_)
SortFragments(fs) ==
    IF fs = <<>> THEN <<>>
    ELSE InsertFragment(SortFragments(SubSeq(fs, 1, Len(fs) - 1)), fs[Len(fs)])

\* what one iteration of the loop puts in front of fragment.value
SeparatorBefore(output, lastY, fragment) ==
    IF lastY # -1
    THEN IF fragment.y > lastY THEN Repeat(<<NL>>, fragment.y - lastY)
         ELSE IF fragment.y = lastY
              THEN IF Len(output) > 0 /\ ~EndsWith(output, SP) /\ ~EndsWith(output, NL)
                   THEN <<SP>> ELSE <<>>
              ELSE <<>>
    ELSE <<>>

RECURSIVE JoinFragments(_, _, _)
JoinFragments(fs, output, lastY) ==
    IF fs = <<>> THEN output
    ELSE JoinFragments(Tail(fs),
                       output \o SeparatorBefore(output, lastY, Head(fs)) \o Head(fs).value,
                       Head(fs).y)

linearizeFragments(fragments) == JoinFragments(SortFragments(fragments), <<>>, -1)

\* -------------------------------------------------- output canvas
\* output.js is not among the sources: the canvas follows section 4.1 of
\* the specification.  A canvas keeps its operations in the order they
\* were issued; get() replays them over a blank grid.
NoRect == [hx |-> FALSE, x1 |-> 0, x2 |-> 0, hy |-> FALSE, y1 |-> 0, y2 |-> 0]

Op(kind, node, x, y, text, transformers, rect) ==
    [op |-> kind, node |-> node, x |-> x, y |-> y, text |-> text,
     transformers |-> transformers, rect |-> rect, skip |-> FALSE]

NoCanvas == [made |-> FALSE, width |-> 0, height |-> 0, sr |-> FALSE, ops |-> <<>>]

NewOutput(width, height, isScreenReaderEnabled) ==
    [made |-> TRUE, width |-> width, height |-> height, sr |-> isScreenReaderEnabled, ops |-> <<>>]

\* the clip rectangles active after the operations ops
RECURSIVE ClipStack(_)
ClipStack(ops) ==
    IF ops = <<>> THEN <<>>
    ELSE LET before == ClipStack(SubSeq(ops, 1, Len(ops) - 1))
             last == ops[Len(ops)]
         IN IF last.op = "clip" THEN Append(before, last.rect)
            ELSE IF last.op = "unclip"
                 THEN (IF before = <<>> THEN <<>> ELSE SubSeq(before, 1, Len(before) - 1))
                 ELSE before

InsideRect(rect, col, row) ==
    /\ (rect.hx => (rect.x1 <= col /\ col < rect.x2))
    /\ (rect.hy => (rect.y1 <= row /\ row < rect.y2))

InsideClips(clips, col, row) == \A i \in 1..Len(clips) : InsideRect(clips[i], col, row)

BlankGrid(width, height) == [row \in 0..(height - 1) |-> [col \in 0..(width - 1) |-> SP]]

\* write(x, y, text): each symbol of line i goes to row y + i, column x + j,
\* unless that cell is off the canvas or outside an active clip
WriteCells(grid, width, height, clips, x, y, text) ==
    LET lines == SplitLines(text)
        Hit(row, col) ==
            /\ row - y + 1 \in 1..Len(lines)
            /\ col - x + 1 \in 1..Len(lines[row - y + 1])
            /\ InsideClips(clips, col, row)
    IN [row \in 0..(height - 1) |->
          [col \in 0..(width - 1) |->
             IF Hit(row, col) THEN lines[row - y + 1][col - x + 1] ELSE grid[row][col]]]

RECURSIVE Replay(_, _, _, _, _)
Replay(ops, grid, clips, width, height) ==
    IF ops = <<>> THEN grid
    ELSE LET o == Head(ops)
         IN IF o.op = "write"
            THEN Replay(Tail(ops), WriteCells(grid, width, height, clips, o.x, o.y, o.text),
                        clips, width, height)
            ELSE IF o.op = "clip"
            THEN Replay(Tail(ops), grid, Append(clips, o.rect), width, height)
            ELSE IF o.op = "unclip"
            THEN Replay(Tail(ops), grid,
                        IF clips = <<>> THEN <<>> ELSE SubSeq(clips, 1, Len(clips) - 1),
                        width, height)
            ELSE Replay(Tail(ops), grid, clips, width, height)

\* a row with its trailing blank columns trimmed
RowString(row, width) ==
    LET used == {col \in 0..(width - 1) : row[col] # SP}
        n == IF used = {} THEN 0 ELSE (CHOOSE col \in used : \A d \in used : d <= col) + 1
    IN [i \in 1..n |-> row[i - 1]]

GridString(grid, width, height) ==
    Join([i \in 1..height |-> RowString(grid[i - 1], width)], <<NL>>)

\* the rows up to the last one that is not blank
GridHeight(grid, width, height) ==
    LET used == {row \in 0..(height - 1) : RowString(grid[row], width) # <<>>}
    IN IF used = {} THEN 0 ELSE (CHOOSE row \in used : \A d \in used : d <= row) + 1

WrittenTexts(ops) ==
    LET writes == SelectSeq(ops, LAMBDA o : o.op = "write")
    IN [i \in 1..Len(writes) |-> writes[i].text]

\* A canvas created for the screen reader (render-node-to-output.ts makes
\* one of width 0 and height 0 and reads the written text back from it)
\* hands back what was written, in the order it was written.
ScreenReaderGet(canvas) ==
    LET text == Concat(WrittenTexts(canvas.ops))
    IN [output |-> text, height |-> IF text = <<>> THEN 0 ELSE Len(SplitLines(text))]

GridGet(canvas) ==
    LET grid == Replay(canvas.ops, BlankGrid(canvas.width, canvas.height), <<>>,
                       canvas.width, canvas.height)
    IN [output |-> GridString(grid, canvas.width, canvas.height),
        height |-> GridHeight(grid, canvas.width, canvas.height)]

OutputGet(canvas) == IF canvas.sr THEN ScreenReaderGet(canvas) ELSE GridGet(canvas)

\* ------------------------------------------------------------ state
VARIABLES
    variant,                \* which pair of source files is running
    isScreenReaderEnabled,  \* the flag handed to renderer
    tree,                   \* node id -> DOM node; node 1 is the root
    pc,                     \* "start", "call", "walk", "passdone", "done"
    pass,                   \* the renderNodeToOutput pass in progress
    stack,                  \* frames of the calls that are looping over children
    canv,                   \* the live and the static Output
    fragments,              \* screenReaderFragments of the pass
    calls,                  \* top-level calls of the node renderer made by renderer
    ret,                    \* clip counts at entry and exit of the call that returned last
    transcripts,            \* the transcript of each screen-reader pass, in order
    result                  \* what renderer returned

vars == <<variant, isScreenReaderEnabled, tree, pc, pass, stack, canv, fragments,
          calls, ret, transcripts, result>>

Root == 1
NodeIds == DOMAIN tree

RECURSIVE SeqOfSet(_)
SeqOfSet(S) ==
    IF S = {} THEN <<>>
    ELSE LET m == CHOOSE a \in S : \A b \in S : a <= b
         IN <<m>> \o SeqOfSet(S \ {m})

\* node.childNodes, in document order
childNodes(n) == SeqOfSet({m \in NodeIds : tree[m].parent = n})

RECURSIVE Ancestors(_)
Ancestors(n) ==
    IF tree[n].parent = 0 THEN {} ELSE {tree[n].parent} \union Ancestors(tree[n].parent)

\* root.staticNode: the reconciler stores the static node created last
StaticNodes == {n \in NodeIds : tree[n].internal_static}
staticNode == IF StaticNodes = {} THEN 0 ELSE CHOOSE n \in StaticNodes : \A m \in StaticNodes : m <= n

NoPass == [phase |-> "none", nv |-> "A", skipStaticElements |-> FALSE,
           isScreenReaderEnabled |-> FALSE, target |-> "live", node |-> 0,
           firstSkip |-> FALSE]

NoRet == [node |-> 0, entry |-> 0, exit |-> 0]

EmptyResult == [output |-> <<>>, outputHeight |-> 0, staticOutput |-> <<>>]

\* ------------------------------------------------- the node renderer
\* squash-text-nodes.js, wrap-text.js and get-max-width.js are not among
\* the sources: node.text is the squashed text of a text node, and the
\* texts of the model fit their node, so that no text is re-wrapped.
squashTextNodes(n) == n.text

\* indent-string: every line that is not empty gets count spaces in front
indentString(text, count) ==
    LET lines == SplitLines(text)
    IN Join([i \in 1..Len(lines) |->
               IF lines[i] = <<>> THEN <<>> ELSE Repeat(<<SP>>, count) \o lines[i]], <<NL>>)

\* childNodes[0] of a text node is a text leaf or a virtual text node;
\* firstChildYoga says whether it has a layout node of its own
applyPaddingToText(n, text) ==
    IF n.firstChildYoga
    THEN Repeat(<<NL>>, n.firstChildTop) \o indentString(text, n.firstChildLeft)
    ELSE text

\* the node's transformer put behind the inherited ones
AppendTransformer(n, id, transformers) ==
    IF n.internal_transform THEN transformers \o <<id>> ELSE transformers

\* [node.internal_transform, ...transformers]
PrependTransformer(n, id, transformers) ==
    IF n.internal_transform THEN <<id>> \o transformers ELSE transformers

newTransformers(n, id, transformers) == PrependTransformer(n, id, transformers)

\* a node renderer that never leaves a static node out
NeverSkipStaticA(n, skipStaticElements) == FALSE

\* skipStaticElements && node.internal_static
SkipStaticA(n, skipStaticElements) == skipStaticElements /\ n.internal_static

\* options.skipStaticElements && isStatic
SkipStaticB(isStatic, skipStaticElements) == skipStaticElements /\ isStatic

clipHorizontally(n) == n.overflowX = "hidden" \/ n.overflow = "hidden"
clipVertically(n) == n.overflowY = "hidden" \/ n.overflow = "hidden"

\* a rectangle around the whole box, borders included
ClipRectOuter(n, x, y) ==
    [hx |-> clipHorizontally(n),
     x1 |-> IF clipHorizontally(n) THEN x ELSE 0,
     x2 |-> IF clipHorizontally(n) THEN x + n.width ELSE 0,
     hy |-> clipVertically(n),
     y1 |-> IF clipVertically(n) THEN y ELSE 0,
     y2 |-> IF clipVertically(n) THEN y + n.height ELSE 0]

ClipRect(n, x, y) ==
    [hx |-> clipHorizontally(n),
     x1 |-> IF clipHorizontally(n) THEN x + n.borderLeft ELSE 0,
     x2 |-> IF clipHorizontally(n) THEN x + n.width - n.borderRight ELSE 0,
     hy |-> clipVertically(n),
     y1 |-> IF clipVertically(n) THEN y + n.borderTop ELSE 0,
     y2 |-> IF clipVertically(n) THEN y + n.height - n.borderBottom ELSE 0]

\* renderBackground, renderBorder, then output.clip when an axis is hidden
BoxOps(n, id, x, y) ==
    <<Op("background", id, x, y, <<>>, <<>>, NoRect),
      Op("border", id, x, y, <<>>, <<>>, NoRect)>>
    \o (IF clipHorizontally(n) \/ clipVertically(n)
        THEN <<Op("clip", id, x, y, <<>>, <<>>, ClipRect(n, x, y))>> ELSE <<>>)

IsReverse(n) == n.flexDirection \in {"row-reverse", "column-reverse"}
IsRow(n) == n.flexDirection \in {"row", "row-reverse"}

Frame(id, x, y, transformers, todo, clipped, entry, isStatic, temp, buf) ==
    [node |-> id, x |-> x, y |-> y, transformers |-> transformers, todo |-> todo,
     clipped |-> clipped, entry |-> entry, isStatic |-> isStatic, temp |-> temp,
     buf |-> buf, outs |-> <<>>]

NoFrame == Frame(0, 0, 0, <<>>, <<>>, FALSE, 0, FALSE, FALSE, <<>>)

Visit(ops, frags, push, frame) == [ops |-> ops, frags |-> frags, push |-> push, frame |-> frame]

\* One call of renderNodeToOutput of render-node-to-output.ts on node id,
\* up to its loop over the children: the operations it issues on its
\* output, and the frame it loops in (push) when the node is a container.
renderNodeA(id, ctx, entry) ==
    LET n == tree[id]
        sr == pass.isScreenReaderEnabled
        x == ctx.x + n.left
        y == ctx.y + n.top
        accessibilityText == IF sr /\ n.acc.present THEN accessibilityTextA(n.acc) ELSE <<>>
        labelOps == IF accessibilityText # <<>>
                    THEN <<Op("write", id, 0, 0, accessibilityText, <<>>, NoRect)>> ELSE <<>>
        text == squashTextNodes(n)
        textOps == IF Len(text) > 0
                   THEN IF sr THEN <<Op("write", id, 0, 0, text, <<>>, NoRect)>>
                        ELSE <<Op("write", id, x, y, applyPaddingToText(n, text),
                                  newTransformers(n, id, ctx.transformers), NoRect)>>
                   ELSE <<>>
        boxOps == IF sr THEN <<>> ELSE BoxOps(n, id, x, y)
        clipped == ~sr /\ (clipHorizontally(n) \/ clipVertically(n))
        todo == IF sr /\ IsReverse(n) THEN Reverse(childNodes(id)) ELSE childNodes(id)
    IN IF SkipStaticA(n, pass.skipStaticElements) THEN Visit(<<>>, <<>>, FALSE, NoFrame)
       ELSE IF ~n.yoga \/ n.none THEN Visit(<<>>, <<>>, FALSE, NoFrame)
       ELSE IF n.nodeName = "ink-text" THEN Visit(labelOps \o textOps, <<>>, FALSE, NoFrame)
       ELSE IF sr
            THEN Visit(labelOps, <<>>, TRUE,
                       Frame(id, ctx.x, ctx.y, ctx.transformers, todo, FALSE, entry,
                             FALSE, ctx.temp, WrittenTexts(labelOps)))
            ELSE Visit(boxOps, <<>>, TRUE,
                       Frame(id, x, y, newTransformers(n, id, ctx.transformers), todo,
                             clipped, entry, FALSE, FALSE, <<>>))

\* One call of renderNodeToOutput of part_002 with screenReaderFragments
\* in place (the wrapper of lines 88-103 is the start and the end of a pass).
renderNodeB(id, ctx, entry) ==
    LET n == tree[id]
        sr == pass.isScreenReaderEnabled
        isStatic == ctx.isStatic \/ n.internal_static
        x == ctx.x + n.left
        y == ctx.y + n.top
        srText == (IF n.acc.present THEN accessibilityTextB(n.acc) ELSE <<>>)
                  \o (IF n.nodeName = "ink-text" THEN squashTextNodes(n) ELSE <<>>)
        frags == IF sr /\ Len(srText) > 0 THEN <<[x |-> x, y |-> y, value |-> srText]>> ELSE <<>>
        nt == newTransformers(n, id, ctx.transformers)
        text == squashTextNodes(n)
        textOps == IF n.nodeName = "ink-text" /\ ~sr /\ Len(text) > 0
                   THEN <<Op("write", id, x, y, applyPaddingToText(n, text), nt, NoRect)>>
                   ELSE <<>>
        isBox == n.nodeName = "ink-box" /\ ~sr
        boxOps == IF isBox THEN BoxOps(n, id, x, y) ELSE <<>>
        clipped == isBox /\ (clipHorizontally(n) \/ clipVertically(n))
    IN IF SkipStaticB(isStatic, pass.skipStaticElements) \/ (n.yoga /\ n.none)
       THEN Visit(<<>>, <<>>, FALSE, NoFrame)
       ELSE IF ~n.yoga THEN Visit(<<>>, <<>>, FALSE, NoFrame)
       ELSE IF n.nodeName \in {"ink-root", "ink-box"}
            THEN Visit(textOps \o boxOps, frags, TRUE,
                       Frame(id, x, y, nt, childNodes(id), clipped, entry, isStatic, FALSE, <<>>))
            ELSE Visit(textOps, frags, FALSE, NoFrame)

\* renderNodeToScreenReaderOutput, which part_001 imports, is not among the
\* sources: one visit of the walker of section 4.5 of the specification.
renderNodeS(id, ctx, entry) ==
    LET n == tree[id]
        x == ctx.x + n.left
        y == ctx.y + n.top
        label == IF n.acc.present THEN accessibilityTextSpec(n.acc) ELSE <<>>
        text == IF n.nodeName = "ink-text" THEN squashTextNodes(n) ELSE <<>>
        frags == (IF label # <<>> THEN <<[x |-> x, y |-> y, value |-> label]>> ELSE <<>>)
                 \o (IF text # <<>> THEN <<[x |-> x, y |-> y, value |-> text]>> ELSE <<>>)
    IN IF ~n.yoga \/ n.none \/ (pass.skipStaticElements /\ n.internal_static)
       THEN Visit(<<>>, <<>>, FALSE, NoFrame)
       ELSE IF n.nodeName \in {"ink-root", "ink-box"}
            THEN Visit(<<>>, frags, TRUE,
                       Frame(id, x, y, <<>>, childNodes(id), FALSE, entry, FALSE, FALSE, <<>>))
            ELSE Visit(<<>>, frags, FALSE, NoFrame)

renderNode(id, ctx, entry) ==
    IF pass.nv = "A" THEN renderNodeA(id, ctx, entry)
    ELSE IF pass.nv = "B" THEN renderNodeB(id, ctx, entry)
    ELSE renderNodeS(id, ctx, entry)

\* --------------------------------------------------------- renderer
\* a renderer that takes every root for a laid-out one
RootLaidOutAlways == TRUE

\* if (node.yogaNode) / if (!node.yogaNode)
RootLaidOut == tree[Root].yoga

StaticLaidOut == staticNode # 0 /\ tree[staticNode].yoga

\* the static string handed back as serialized
StaticOutputStringNoBreak(canvas) == OutputGet(canvas).output

\* `${staticOutput.get().output}\n`
StaticOutputString(canvas) == OutputGet(canvas).output \o <<NL>>

\* const outputHeight = output.split('\n').length (part_001)
ScreenReaderHeightC(output) == Len(SplitLines(output))

FirstPass(nv, skip, sr) ==
    [phase |-> "first", nv |-> nv, skipStaticElements |-> skip,
     isScreenReaderEnabled |-> sr, target |-> "live", node |-> Root,
     firstSkip |-> skip]

StaticPass(nv, sr, target) ==
    [phase |-> "static", nv |-> nv, skipStaticElements |-> FALSE,
     isScreenReaderEnabled |-> sr, target |-> target, node |-> staticNode,
     firstSkip |-> pass.skipStaticElements]

RootOutput(sr) == NewOutput(tree[Root].width, tree[Root].height, sr)
StaticOutput(sr) == NewOutput(tree[staticNode].width, tree[staticNode].height, sr)

\* renderer, from its entry to its first call of the node renderer
Compose ==
    /\ pc = "start"
    /\ IF ~RootLaidOut
       THEN /\ result' = EmptyResult
            /\ pc' = "done"
            /\ UNCHANGED <<pass, canv>>
       ELSE /\ pc' = "call"
            /\ result' = result
            /\ IF variant = "A"
               THEN /\ canv' = [canv EXCEPT !.live = RootOutput(isScreenReaderEnabled)]
                    /\ pass' = FirstPass("A", TRUE, isScreenReaderEnabled)
               ELSE IF variant = "B"
               THEN /\ canv' = [canv EXCEPT !.live = RootOutput(FALSE)]
                    /\ pass' = FirstPass("B", ~isScreenReaderEnabled, isScreenReaderEnabled)
               ELSE IF isScreenReaderEnabled
               THEN /\ canv' = canv
                    /\ pass' = FirstPass("S", FALSE, TRUE)
               ELSE /\ canv' = [canv EXCEPT !.live = RootOutput(FALSE)]
                    /\ pass' = FirstPass("A", TRUE, FALSE)
    /\ UNCHANGED <<variant, isScreenReaderEnabled, tree, stack, fragments, calls, ret,
                   transcripts>>

TopCtx == [x |-> 0, y |-> 0, transformers |-> <<>>, isStatic |-> FALSE, temp |-> FALSE]

ChildCtx(f) ==
    [x |-> f.x, y |-> f.y, transformers |-> f.transformers, isStatic |-> f.isStatic,
     temp |-> pass.nv = "A" /\ pass.isScreenReaderEnabled]

ClipCount(c) == Len(ClipStack(c[pass.target].ops))

\* the operations of a call reach the Output of its pass; each keeps, for
\* the record, the skipStaticElements of the pass that issued it
AddOps(c, ops) ==
    [c EXCEPT ![pass.target].ops =
        @ \o [i \in 1..Len(ops) |-> [ops[i] EXCEPT !.skip = pass.skipStaticElements]]]

\* a call of renderNodeToOutput: by renderer on the node of the pass, or by
\* the loop of the call on top of the stack on its next child
Enter ==
    /\ pc \in {"call", "walk"}
    /\ pc = "walk" => stack[Len(stack)].todo # <<>>
    /\ LET top == stack[Len(stack)]
           id == IF pc = "call" THEN pass.node ELSE Head(top.todo)
           ctx == IF pc = "call" THEN TopCtx ELSE ChildCtx(top)
           v == renderNode(id, ctx, ClipCount(canv))
           canvAfter == IF ctx.temp THEN canv ELSE AddOps(canv, v.ops)
           childOutput == Concat(WrittenTexts(v.ops))
           base == IF pc = "call" THEN <<>>
                   ELSE [stack EXCEPT ![Len(stack)] =
                           [top EXCEPT !.todo = Tail(top.todo),
                                       !.outs = IF ctx.temp /\ ~v.push
                                                THEN Append(top.outs, childOutput)
                                                ELSE top.outs]]
       IN /\ canv' = canvAfter
          /\ fragments' = fragments \o v.frags
          /\ stack' = IF v.push THEN Append(base, v.frame) ELSE base
          /\ pc' = IF stack' = <<>> THEN "passdone" ELSE "walk"
          /\ calls' = IF pc = "call" THEN calls + 1 ELSE calls
          /\ ret' = IF v.push THEN ret
                    ELSE [node |-> id, entry |-> ClipCount(canv), exit |-> ClipCount(canvAfter)]
    /\ UNCHANGED <<variant, isScreenReaderEnabled, tree, pass, transcripts, result>>

\* a call that leaves its clip on the Output
NoUnclipOps(f) == <<>>

\* if (clipped) output.unclip()
UnclipOps(f) == IF f.clipped THEN <<Op("unclip", f.node, 0, 0, <<>>, <<>>, NoRect)>> ELSE <<>>

\* the end of a call that looped over its children
Return ==
    /\ pc = "walk"
    /\ stack[Len(stack)].todo = <<>>
    /\ LET top == stack[Len(stack)]
           rest == SubSeq(stack, 1, Len(stack) - 1)
           srA == pass.nv = "A" /\ pass.isScreenReaderEnabled
           separator == IF IsRow(tree[top.node]) THEN <<SP>> ELSE <<NL>>
           text == Join(FilterBoolean(top.outs), separator)
           joinOps == IF srA /\ text # <<>>
                      THEN <<Op("write", top.node, 0, 0, text, <<>>, NoRect)>> ELSE <<>>
           ops == IF srA THEN joinOps ELSE UnclipOps(top)
           canvAfter == IF top.temp THEN canv ELSE AddOps(canv, ops)
           tempOutput == Concat(top.buf \o WrittenTexts(joinOps))
       IN /\ canv' = canvAfter
          /\ stack' = IF top.temp
                      THEN [rest EXCEPT ![Len(rest)].outs = Append(@, tempOutput)]
                      ELSE rest
          /\ pc' = IF rest = <<>> THEN "passdone" ELSE "walk"
          /\ ret' = [node |-> top.node, entry |-> top.entry, exit |-> ClipCount(canvAfter)]
    /\ UNCHANGED <<variant, isScreenReaderEnabled, tree, pass, fragments, calls,
                   transcripts, result>>

\* what renderer returns once its passes are over
Finish(c) ==
    IF variant = "C" /\ isScreenReaderEnabled
    THEN LET output == linearizeFragments(fragments)
         IN [output |-> output, outputHeight |-> ScreenReaderHeightC(output),
             staticOutput |-> <<>>]
    ELSE [output |-> OutputGet(c.live).output,
          outputHeight |-> OutputGet(c.live).height,
          staticOutput |-> IF variant = "B" /\ isScreenReaderEnabled THEN <<>>
                           ELSE IF c.static.made THEN StaticOutputString(c.static)
                           ELSE <<>>]

\* the pass after the first one, when renderer makes one
HasStaticPass ==
    /\ pass.phase = "first"
    /\ StaticLaidOut
    /\ ~(variant = "C" /\ isScreenReaderEnabled)

\* The end of a top-level call of the node renderer (in screen-reader mode
\* part_002 linearizes the fragments and writes the transcript at 0, 0),
\* then renderer: the pass over the static node, or the result.
EndPass ==
    /\ pc = "passdone"
    /\ LET wrapperOps ==
               IF pass.nv = "B" /\ pass.isScreenReaderEnabled
               THEN <<Op("write", pass.node, 0, 0, linearizeFragments(fragments), <<>>, NoRect)>>
               ELSE <<>>
           canvAfter == AddOps(canv, wrapperOps)
           transcript == IF pass.nv = "A" THEN OutputGet(canvAfter[pass.target]).output
                         ELSE linearizeFragments(fragments)
       IN /\ transcripts' = IF pass.isScreenReaderEnabled
                            THEN Append(transcripts, transcript) ELSE transcripts
          /\ IF HasStaticPass
             THEN /\ pc' = "call"
                  /\ result' = result
                  /\ fragments' = <<>>
                  /\ IF variant = "A"
                     THEN /\ canv' = [canvAfter EXCEPT
                                        !.static = StaticOutput(isScreenReaderEnabled)]
                          /\ pass' = StaticPass("A", FALSE, "static")
                     ELSE IF variant = "B" /\ isScreenReaderEnabled
                     THEN /\ canv' = canvAfter
                          /\ pass' = StaticPass("B", TRUE, "live")
                     ELSE IF variant = "B"
                     THEN /\ canv' = [canvAfter EXCEPT !.static = StaticOutput(FALSE)]
                          /\ pass' = StaticPass("B", FALSE, "static")
                     ELSE /\ canv' = [canvAfter EXCEPT !.static = StaticOutput(FALSE)]
                          /\ pass' = StaticPass("A", FALSE, "static")
             ELSE /\ pc' = "done"
                  /\ result' = Finish(canvAfter)
                  /\ canv' = canvAfter
                  /\ UNCHANGED <<pass, fragments>>
    /\ UNCHANGED <<variant, isScreenReaderEnabled, tree, stack, calls, ret>>

Next == Compose \/ Enter \/ Return \/ EndPass

\* ----------------------------------------------------------- inputs
\* The trees handed to renderer.  Every family draws the attributes its
\* claims are about from small sets and leaves the others at the values
\* of DefaultNode.
DefaultNode ==
    [nodeName |-> "ink-box", parent |-> 0, yoga |-> TRUE, none |-> FALSE,
     internal_static |-> FALSE, internal_transform |-> FALSE,
     overflowX |-> "visible", overflowY |-> "visible", overflow |-> "visible",
     flexDirection |-> "row",
     left |-> 0, top |-> 0, width |-> 3, height |-> 2,
     borderLeft |-> 0, borderRight |-> 0, borderTop |-> 0, borderBottom |-> 0,
     text |-> <<>>, acc |-> NoAccessibility,
     firstChildYoga |-> FALSE, firstChildLeft |-> 0, firstChildTop |-> 0]

DefaultRoot == [DefaultNode EXCEPT !.nodeName = "ink-root", !.flexDirection = ""]

DefaultText == [DefaultNode EXCEPT !.nodeName = "ink-text", !.flexDirection = "",
                                   !.width = 1, !.height = 1]

\* the squashed text of text node i: one word of its own
TextSym == <<"t1", "t2", "t3", "t4", "t5", "t6">>

\* Yoga gives a node whose display is none no size
Sized(n) == IF n.none THEN [n EXCEPT !.width = 0, !.height = 0] ELSE n

\* parents[i] is the parent of node i; only containers have child elements
Shapes(n) == {p \in [2..n -> 1..(n - 1)] : \A i \in 2..n : p[i] < i}

MkTree(n, parents, root, attrs, suffix) ==
    [i \in 1..n |->
       IF i = 1 THEN Sized(root)
       ELSE Sized([attrs[i] EXCEPT
                     !.parent = parents[i],
                     !.text = IF attrs[i].nodeName = "ink-text"
                              THEN <<TextSym[i]>> \o suffix ELSE <<>>])]

WellFormed(t) == \A i \in DOMAIN t : i > 1 => t[t[i].parent].nodeName # "ink-text"

InitWith(Variants, Modes, RootChoices, NodeChoices, Suffixes) ==
    /\ \E n \in 2..MaxNodes : \E parents \in Shapes(n) : \E root \in RootChoices :
          \E attrs \in [2..n -> NodeChoices] : \E suffix \in Suffixes :
             /\ tree = MkTree(n, parents, root, attrs, suffix)
             /\ WellFormed(tree)
    /\ variant \in Variants
    /\ isScreenReaderEnabled \in Modes
    /\ pc = "start"
    /\ pass = NoPass
    /\ stack = <<>>
    /\ canv = [live |-> NoCanvas, static |-> NoCanvas]
    /\ fragments = <<>>
    /\ calls = 0
    /\ ret = NoRet
    /\ transcripts = <<>>
    /\ result = EmptyResult

\* compose: laid-out and detached roots, hidden nodes, static nodes of
\* one or two rows
ComposeRoots == {[DefaultRoot EXCEPT !.yoga = y, !.none = d] : y \in BOOLEAN, d \in BOOLEAN}
ComposeNodes ==
    {[DefaultText EXCEPT !.internal_static = s, !.none = d] : s \in BOOLEAN, d \in BOOLEAN}
    \union {[DefaultNode EXCEPT !.none = d] : d \in BOOLEAN}
    \union {[DefaultNode EXCEPT !.internal_static = TRUE, !.none = d, !.height = h] :
                d \in BOOLEAN, h \in 1..2}

Init == InitWith({"A", "B", "C"}, BOOLEAN, ComposeRoots, ComposeNodes, {<<>>})

Spec == Init /\ [][Next]_vars

\* clipping: boxes that hide one axis, both (the shorthand) or none, some
\* of them hidden or static
Overflows ==
    {[x |-> "visible", y |-> "visible", xy |-> "visible"],
     [x |-> "hidden", y |-> "visible", xy |-> "visible"],
     [x |-> "visible", y |-> "hidden", xy |-> "visible"],
     [x |-> "visible", y |-> "visible", xy |-> "hidden"]}
ClipRoots == {[DefaultRoot EXCEPT !.overflow = o] : o \in {"visible", "hidden"}}
ClipNodes ==
    {[DefaultText EXCEPT !.none = d] : d \in BOOLEAN}
    \union {[DefaultNode EXCEPT !.overflowX = o.x, !.overflowY = o.y, !.overflow = o.xy] :
                o \in Overflows}
    \union {[DefaultNode EXCEPT !.none = TRUE]}
    \union {[DefaultNode EXCEPT !.internal_static = TRUE, !.overflow = o] :
                o \in {"visible", "hidden"}}

InitClip == InitWith({"A", "B", "C"}, BOOLEAN, ClipRoots, ClipNodes, {<<>>})

SpecClip == InitClip /\ [][Next]_vars

\* transformers: any node may carry one; boxes may be static
TransRoots == {[DefaultRoot EXCEPT !.internal_transform = t] : t \in BOOLEAN}
TransNodes ==
    {[DefaultText EXCEPT !.internal_transform = t] : t \in BOOLEAN}
    \union {[DefaultNode EXCEPT !.internal_transform = t, !.internal_static = s] :
                t \in BOOLEAN, s \in BOOLEAN}

InitTrans == InitWith({"A", "B", "C"}, {FALSE}, TransRoots, TransNodes, {<<>>})

SpecTrans == InitTrans /\ [][Next]_vars

\* linearizer: text nodes anywhere on rows -1..MaxCoord (a negative top
\* margin puts a node above its parent) and columns 0..MaxCoord, boxes that
\* shift their children down, texts that end in a word, a space or a line
\* break
LinNodes ==
    {[DefaultText EXCEPT !.left = l, !.top = t] : l \in 0..MaxCoord, t \in (-1)..MaxCoord}
    \union {[DefaultNode EXCEPT !.top = t] : t \in 0..MaxCoord}

InitLin == InitWith({"B"}, {TRUE}, {DefaultRoot}, LinNodes, {<<>>, <<SP>>, <<NL>>})

SpecLin == InitLin /\ [][Next]_vars

\* labels: a root of one row as wide as the longest transcript, boxes of
\* one row that carry an accessibility descriptor: a role or none, no state
\* object, one flag, or two flags of either value
Flags(c, d) == <<[key |-> "checked", value |-> c], [key |-> "disabled", value |-> d]>>

Descriptors ==
    {[present |-> TRUE, role |-> r, hasState |-> TRUE, state |-> Flags(c, d)] :
        r \in {"", "button"}, c \in BOOLEAN, d \in BOOLEAN}
    \union {[present |-> TRUE, role |-> r, hasState |-> TRUE,
             state |-> <<[key |-> "disabled", value |-> TRUE]>>] : r \in {"", "button"}}
    \union {[present |-> TRUE, role |-> r, hasState |-> FALSE, state |-> <<>>] :
                r \in {"", "button"}}

LabelNodes ==
    {DefaultText}
    \union {[DefaultNode EXCEPT !.height = 1, !.acc = a] : a \in Descriptors \union {NoAccessibility}}

InitLabel ==
    InitWith({"A", "B", "C"}, {TRUE}, {[DefaultRoot EXCEPT !.height = 1, !.width = 24]},
             LabelNodes, {<<>>})

SpecLabel == InitLabel /\ [][Next]_vars

\* clip rectangles: boxes at the origin of their parent or moved along one
\* axis, with borders on some sides, that hide one axis, both or none; a
\* hidden and a static box that would clip
Geometries ==
    {[left |-> 0, top |-> 0, bl |-> 0, br |-> 0, bt |-> 0, bb |-> 0],
     [left |-> MaxCoord, top |-> 0, bl |-> 1, br |-> 0, bt |-> 0, bb |-> 1],
     [left |-> 0, top |-> MaxCoord, bl |-> 0, br |-> 1, bt |-> 1, bb |-> 0]}

RectNodes ==
    {DefaultText}
    \union {[DefaultNode EXCEPT !.overflowX = o.x, !.overflowY = o.y, !.overflow = o.xy,
                                !.left = g.left, !.top = g.top,
                                !.borderLeft = g.bl, !.borderRight = g.br,
                                !.borderTop = g.bt, !.borderBottom = g.bb] :
                o \in Overflows, g \in Geometries}
    \union {[DefaultNode EXCEPT !.none = TRUE, !.overflow = "hidden"],
            [DefaultNode EXCEPT !.internal_static = TRUE, !.overflowX = "hidden",
                                !.left = MaxCoord, !.borderTop = 1]}

InitRect == InitWith({"A", "B"}, {FALSE}, {DefaultRoot}, RectNodes, {<<>>})

SpecRect == InitRect /\ [][Next]_vars

\* ----------------------------------------------------------- claims
Symbols(str) == {str[i] : i \in 1..Len(str)}

AllOps(c) == {c.ops[i] : i \in 1..Len(c.ops)}

\* node n is marked static or lies below a node marked static
UnderStatic(n) == tree[n].internal_static \/ \E a \in Ancestors(n) : tree[a].internal_static

\* n is top or lies below it, and every node from top down to n is laid
\* out and displayed
Shown(n, top) ==
    /\ (n = top \/ top \in Ancestors(n))
    /\ \A a \in ({n} \union Ancestors(n)) \ Ancestors(top) : tree[a].yoga /\ ~tree[a].none

\* C1: a root without a layout node yields the all-empty result in both
\* modes, and neither an Output is created nor the node renderer called.
C1_DetachedRootIsEmpty ==
    ~tree[Root].yoga =>
        /\ ~canv.live.made /\ ~canv.static.made
        /\ calls = 0 /\ pass = NoPass /\ stack = <<>>
        /\ pc \in {"start", "done"}
        /\ result = EmptyResult

C1_Witness ==
    pc = "done" /\ ~tree[Root].yoga /\ isScreenReaderEnabled /\ staticNode # 0

C3_ScreenReaderCompose ==
    (isScreenReaderEnabled /\ tree[Root].yoga) =>
        /\ pass.phase # "none" => (pass.isScreenReaderEnabled /\ ~pass.skipStaticElements)
        /\ pc = "done" =>
              /\ Len(transcripts) = (IF staticNode # 0 THEN 2 ELSE 1)
              /\ result.output = Concat(transcripts)
              /\ result.staticOutput = <<>>

\* C4: while skipStaticElements is set no operation reaches an Output for a
\* node that is static or lies below a static node, and the output of a
\* live pass holds none of their text; the pass over the static node
\* renders them into the static Output, which is not the live one.
C4_StaticLiveSeparation ==
    /\ \A which \in {"live", "static"} : \A o \in AllOps(canv[which]) :
          o.skip => ~UnderStatic(o.node)
    /\ pass.skipStaticElements => \A i \in 1..Len(stack) : ~UnderStatic(stack[i].node)
    /\ (pc = "done" /\ pass.firstSkip) =>
          \A n \in NodeIds : (UnderStatic(n) /\ tree[n].nodeName = "ink-text")
                                 => TextSym[n] \notin Symbols(result.output)
    /\ (pc = "done" /\ pass.firstSkip /\ StaticLaidOut) =>
          /\ canv.static.made /\ canv.live.made
          /\ pass.phase = "static" /\ pass.target = "static"
          /\ \A n \in NodeIds :
                (tree[n].nodeName = "ink-text" /\ Shown(n, staticNode)) =>
                    /\ \E o \in AllOps(canv.static) : o.op = "write" /\ o.node = n
                    /\ \A o \in AllOps(canv.live) : o.node # n

C4_Witness ==
    /\ pc = "done" /\ pass.firstSkip /\ StaticLaidOut
    /\ \E n \in NodeIds :
          /\ tree[n].nodeName = "ink-text" /\ n # staticNode /\ Shown(n, staticNode)
          /\ \E o \in AllOps(canv.static) : o.op = "write" /\ o.node = n
          /\ TextSym[n] \notin Symbols(result.output)
          /\ TextSym[n] \in Symbols(result.staticOutput)

\* C9 as stated: a laid-out root whose display is none yields the all-empty
\* result, with or without a static subtree, in both modes.
C9_HiddenRootIsEmpty ==
    (pc = "done" /\ tree[Root].yoga /\ tree[Root].none) => result = EmptyResult

ClipsOf(which) == ClipStack(canv[which].ops)

ClippedFrames(k) == Cardinality({i \in 1..k : stack[i].clipped})

\* the deepest the clip stack of an Output has been
DeepestClip(which) ==
    LET ops == canv[which].ops
        depths == {Len(ClipStack(SubSeq(ops, 1, k))) : k \in 0..Len(ops)}
    IN CHOOSE d \in depths : \A e \in depths : e <= d

\* C5: every call of the node renderer leaves the clip stack as deep as it
\* found it; the clips in force are those of the calls still looping over
\* their children, one each; unclip never meets an empty stack; and the
\* stack is empty when a top-level call has returned.
C5_ClipStackBalance ==
    /\ ret.entry = ret.exit
    /\ pass.phase # "none" =>
          /\ Len(ClipsOf(pass.target)) = ClippedFrames(Len(stack))
          /\ \A i \in 1..Len(stack) : stack[i].entry = ClippedFrames(i - 1)
    /\ \A which \in {"live", "static"} : \A k \in 1..Len(canv[which].ops) :
          canv[which].ops[k].op = "unclip" =>
              LET before == SubSeq(canv[which].ops, 1, k - 1)
                  open == {j \in 1..(k - 1) :
                              /\ before[j].op = "clip"
                              /\ Len(ClipStack(SubSeq(before, 1, j))) = Len(ClipStack(before))
                              /\ \A l \in j..(k - 1) :
                                    Len(ClipStack(SubSeq(before, 1, l))) >= Len(ClipStack(before))}
              IN /\ ClipStack(before) # <<>>
                 /\ \E j \in open : before[j].node = canv[which].ops[k].node
    /\ pc \in {"passdone", "done"} => (ClipsOf("live") = <<>> /\ ClipsOf("static") = <<>>)

C5_Witness ==
    /\ pc = "done"
    /\ DeepestClip("live") >= 2
    /\ ret.node = Root

\* the transformers of n and of its ancestors up to top, the node the pass
\* was started on, innermost first
RECURSIVE Chain(_, _)
Chain(n, top) ==
    (IF tree[n].internal_transform THEN <<n>> ELSE <<>>)
    \o (IF n = top \/ tree[n].parent = 0 THEN <<>> ELSE Chain(tree[n].parent, top))

PassTop(which) == IF which = "live" THEN Root ELSE staticNode

\* C10: in the visual renderer the list recorded with the write of a text
\* node holds the transformer of the node and those of its ancestors in
\* the pass, innermost first and nothing else, and the list a call hands
\* to its children stays that of its own node while they are rendered.
C10_TransformerScoping ==
    /\ \A which \in {"live", "static"} : \A o \in AllOps(canv[which]) :
          o.op = "write" => o.transformers = Chain(o.node, PassTop(which))
    /\ \A i \in 1..Len(stack) : stack[i].transformers = Chain(stack[i].node, pass.node)

C10_Witness ==
    /\ pc = "done"
    /\ \E o1 \in AllOps(canv.live), o2 \in AllOps(canv.live) :
          /\ o1.op = "write" /\ o2.op = "write"
          /\ Len(o1.transformers) = 2 /\ o1.transformers[1] = o1.node
          /\ Len(o2.transformers) = 1 /\ o2.node # o1.node
          /\ o1.node \notin Symbols(o2.transformers)

\* where symbol c stands in str (0 when it does not occur)
Pos(str, c) == IF c \in Symbols(str) THEN CHOOSE i \in 1..Len(str) : str[i] = c ELSE 0

LastTranscript == transcripts[Len(transcripts)]

ClaimedSeparator(output, previous, fragment) ==
    IF fragment.y > previous.y THEN Repeat(<<NL>>, fragment.y - previous.y)
    ELSE IF EndsWith(output, SP) \/ EndsWith(output, NL) THEN <<>>
    ELSE <<SP>>

RECURSIVE ClaimedJoin(_, _, _)
ClaimedJoin(fs, k, output) ==
    IF k > Len(fs) THEN output
    ELSE ClaimedJoin(fs, k + 1,
                     output
                     \o (IF k = 1 THEN <<>> ELSE ClaimedSeparator(output, fs[k - 1], fs[k]))
                     \o fs[k].value)

\* C7 as stated: between consecutive fragments of the sorted list stand as
\* many line breaks as rows lie between them, or on one row a single space
\* unless the text so far ends in a space or a line break; nothing stands
\* before the first fragment.
C7_LinearizerJoining ==
    (pc = "done" /\ pass.nv = "B" /\ pass.isScreenReaderEnabled) =>
        LastTranscript = ClaimedJoin(SortFragments(fragments), 1, <<>>)

\* C10 as stated: the list holds the transformers of the node and of all
\* its ancestors.
C10_AllAncestors ==
    \A which \in {"live", "static"} : \A o \in AllOps(canv[which]) :
        o.op = "write" => o.transformers = Chain(o.node, Root)

\* the root holds one box with a descriptor and the box holds one text
LabelledBox ==
    /\ Len(tree) = 3
    /\ tree[2].parent = 1 /\ tree[2].nodeName = "ink-box" /\ tree[2].acc.present
    /\ tree[3].parent = 2 /\ tree[3].nodeName = "ink-text"

\* C8 as stated: the transcript of a box with a descriptor that holds one
\* text is "(flag1, flag2) role: " followed by the text, the flags being
\* the true ones in one pair of parentheses, either part left out when it
\* is empty; role "button" with {disabled: true} gives "(disabled) button: "
\* and the text.
C8_ScreenReaderLabel ==
    (pc = "done" /\ isScreenReaderEnabled /\ LabelledBox) =>
        result.output = accessibilityTextSpec(tree[2].acc) \o tree[3].text

\* the same with render-node-to-output.ts alone
C8_LabelOfRenderNodeToOutput ==
    (pc = "done" /\ isScreenReaderEnabled /\ LabelledBox /\ variant = "A") =>
        result.output = accessibilityTextSpec(tree[2].acc) \o tree[3].text

\* the absolute position of n in a pass started on top: the offsets of the
\* nodes from top down to n added up
RECURSIVE AbsLeft(_, _)
AbsLeft(n, top) ==
    tree[n].left + (IF n = top \/ tree[n].parent = 0 THEN 0 ELSE AbsLeft(tree[n].parent, top))

RECURSIVE AbsTop(_, _)
AbsTop(n, top) ==
    tree[n].top + (IF n = top \/ tree[n].parent = 0 THEN 0 ELSE AbsTop(tree[n].parent, top))

HidesX(n) == tree[n].overflowX = "hidden" \/ tree[n].overflow = "hidden"
HidesY(n) == tree[n].overflowY = "hidden" \/ tree[n].overflow = "hidden"

Boxes == {n \in NodeIds : tree[n].nodeName = "ink-box"}

\* the positions in the operations of an Output at which node n was painted
\* (its border) and at which it pushed a clip
PaintedAt(ops, n) == {k \in 1..Len(ops) : ops[k].op = "border" /\ ops[k].node = n}
ClippedAt(ops, n) == {k \in 1..Len(ops) : ops[k].op = "clip" /\ ops[k].node = n}

\* C11: in the visual renderer a box that is rendered pushes a clip if and
\* only if it hides the horizontal or the vertical axis (the shorthand
\* counting for both) and a box that is not rendered pushes none; the
\* rectangle runs on a hidden axis from the box's absolute position plus the
\* leading border to position plus size minus the trailing border and is
\* unbounded on an axis that is not hidden; the clip directly follows the
\* box's background and border and precedes every operation of the nodes
\* below it.
C11_ClipRectangle ==
    \A which \in {"live", "static"} :
        LET ops == canv[which].ops
            top == PassTop(which)
        IN ~canv[which].sr =>
             \A b \in Boxes :
                /\ \A k \in PaintedAt(ops, b) :
                      /\ k > 1 /\ ops[k - 1].op = "background" /\ ops[k - 1].node = b
                      /\ (HidesX(b) \/ HidesY(b)) <=> (k < Len(ops) /\ (k + 1) \in ClippedAt(ops, b))
                /\ \A k \in ClippedAt(ops, b) :
                      /\ (k - 1) \in PaintedAt(ops, b)
                      /\ ops[k].rect.hx = HidesX(b)
                      /\ ops[k].rect.hy = HidesY(b)
                      /\ HidesX(b) =>
                            /\ ops[k].rect.x1 = AbsLeft(b, top) + tree[b].borderLeft
                            /\ ops[k].rect.x2 = AbsLeft(b, top) + tree[b].width - tree[b].borderRight
                      /\ HidesY(b) =>
                            /\ ops[k].rect.y1 = AbsTop(b, top) + tree[b].borderTop
                            /\ ops[k].rect.y2 = AbsTop(b, top) + tree[b].height - tree[b].borderBottom
                      /\ \A j \in 1..Len(ops) : b \in Ancestors(ops[j].node) => j > k
                /\ (pc = "done" /\ ~isScreenReaderEnabled) =>
                      (PaintedAt(ops, b) # {} <=>
                          /\ top # 0
                          /\ canv[which].made
                          /\ Shown(b, top)
                          /\ (which = "live" => ~UnderStatic(b)))

C11_Witness ==
    /\ pc = "done" /\ ~isScreenReaderEnabled
    /\ \E b \in Boxes : \E k \in ClippedAt(canv.live.ops, b) :
          /\ canv.live.ops[k].rect.hx /\ ~canv.live.ops[k].rect.hy
          /\ tree[b].borderLeft = 1
          /\ canv.live.ops[k].rect.x1 = MaxCoord + 1
          /\ \E j \in (k + 1)..Len(canv.live.ops) :
                canv.live.ops[j].op = "write" /\ tree[canv.live.ops[j].node].parent = b

====
